---- MODULE Spec2Model ----
(***************************************************************************)
(* Model of homeassistant/components/nextdns/sensor.py: the SENSORS        *)
(* catalog, async_setup_entry, and the NextDnsSensor entity (constructor   *)
(* and _handle_coordinator_update).  The update coordinators that own the  *)
(* analytics snapshots are the environment: they replace their data and    *)
(* notify the entities that listen to them.                                *)
(***************************************************************************)
EXTENDS Integers, Sequences, FiniteSets, TLC

VARIABLES
    hass_data,    \* hass.data[DOMAIN][entry_id][coordinator_type]: the coordinators
    sensors,      \* per config entry, the NextDnsSensor objects built by its setup
    added,        \* per config entry, the lists passed to async_add_entities
    written,      \* per entity, the values visible at each async_write_ha_state call
    observed,     \* per entity, coordinator.data at construction and at each handled update
    nRefresh,     \* number of snapshot replacements so far
    nUpdate,      \* number of update notifications handled so far
    probe         \* a pair of (profile_id, description) inputs and the ids derived from them

vars == <<hass_data, sensors, added, written, observed, nRefresh, nUpdate, probe>>

-----------------------------------------------------------------------------
(* Bounds *)

MaxSeed == 1

MaxRefresh == 1

MaxUpdate == 2

MaxParts == 3

-----------------------------------------------------------------------------
(* .const: the coordinator types *)

ATTR_DNSSEC == "dnssec"

ATTR_ENCRYPTION == "encryption"

ATTR_IP_VERSIONS == "ip_versions"

ATTR_PROTOCOLS == "protocols"

ATTR_STATUS == "status"

CoordinatorTypes ==
    {ATTR_STATUS, ATTR_PROTOCOLS, ATTR_ENCRYPTION, ATTR_IP_VERSIONS, ATTR_DNSSEC}

PERCENTAGE == "%"

-----------------------------------------------------------------------------
(* The catalog *)

\* Mutant: the key is stored where the coordinator type belongs.
NextDnsSensorEntityDescription_TagIsKey(key, coordinator_type, enabled, icon, name, unit, value) ==
    [ key                             |-> key,
      coordinator_type                |-> key,
      entity_category                 |-> "diagnostic",
      entity_registry_enabled_default |-> enabled,
      icon                            |-> icon,
      name                            |-> name,
      native_unit_of_measurement      |-> unit,
      state_class                     |-> "measurement",
      value                           |-> value ]

NextDnsSensorEntityDescription(key, coordinator_type, enabled, icon, name, unit, value) ==
    [ key                             |-> key,
      coordinator_type                |-> coordinator_type,
      entity_category                 |-> "diagnostic",
      entity_registry_enabled_default |-> enabled,
      icon                            |-> icon,
      name                            |-> name,
      native_unit_of_measurement      |-> unit,
      state_class                     |-> "measurement",
      value                           |-> value ]

\* value is the attribute the description's lambda reads from the snapshot.
SENSORS == <<
    NextDnsSensorEntityDescription("all_queries", ATTR_STATUS, TRUE,
        "mdi:dns", "DNS queries", "queries", "all_queries"),
    NextDnsSensorEntityDescription("blocked_queries", ATTR_STATUS, TRUE,
        "mdi:dns", "DNS queries blocked", "queries", "blocked_queries"),
    NextDnsSensorEntityDescription("relayed_queries", ATTR_STATUS, TRUE,
        "mdi:dns", "DNS queries relayed", "queries", "relayed_queries"),
    NextDnsSensorEntityDescription("blocked_queries_ratio", ATTR_STATUS, TRUE,
        "mdi:dns", "DNS queries blocked ratio", PERCENTAGE, "blocked_queries_ratio"),
    NextDnsSensorEntityDescription("doh_queries", ATTR_PROTOCOLS, FALSE,
        "mdi:dns", "DNS-over-HTTPS queries", "queries", "doh_queries"),
    NextDnsSensorEntityDescription("dot_queries", ATTR_PROTOCOLS, FALSE,
        "mdi:dns", "DNS-over-TLS queries", "queries", "dot_queries"),
    NextDnsSensorEntityDescription("doq_queries", ATTR_PROTOCOLS, FALSE,
        "mdi:dns", "DNS-over-QUIC queries", "queries", "doq_queries"),
    NextDnsSensorEntityDescription("udp_queries", ATTR_PROTOCOLS, FALSE,
        "mdi:dns", "UDP queries", "queries", "udp_queries"),
    NextDnsSensorEntityDescription("doh_queries_ratio", ATTR_PROTOCOLS, FALSE,
        "mdi:dns", "DNS-over-HTTPS queries ratio", PERCENTAGE, "doh_queries_ratio"),
    NextDnsSensorEntityDescription("dot_queries_ratio", ATTR_PROTOCOLS, FALSE,
        "mdi:dns", "DNS-over-TLS queries ratio", PERCENTAGE, "dot_queries_ratio"),
    NextDnsSensorEntityDescription("doq_queries_ratio", ATTR_PROTOCOLS, FALSE,
        "mdi:dns", "DNS-over-QUIC queries ratio", PERCENTAGE, "doq_queries_ratio"),
    NextDnsSensorEntityDescription("udp_queries_ratio", ATTR_PROTOCOLS, FALSE,
        "mdi:dns", "UDP queries ratio", PERCENTAGE, "udp_queries_ratio"),
    NextDnsSensorEntityDescription("encrypted_queries", ATTR_ENCRYPTION, FALSE,
        "mdi:lock", "Encrypted queries", "queries", "encrypted_queries"),
    NextDnsSensorEntityDescription("unencrypted_queries", ATTR_ENCRYPTION, FALSE,
        "mdi:lock-open", "Unencrypted queries", "queries", "unencrypted_queries"),
    NextDnsSensorEntityDescription("encrypted_queries_ratio", ATTR_ENCRYPTION, FALSE,
        "mdi:lock", "Encrypted queries ratio", PERCENTAGE, "encrypted_queries_ratio"),
    NextDnsSensorEntityDescription("ipv4_queries", ATTR_IP_VERSIONS, FALSE,
        "mdi:ip", "IPv4 queries", "queries", "ipv4_queries"),
    NextDnsSensorEntityDescription("ipv6_queries", ATTR_IP_VERSIONS, FALSE,
        "mdi:ip", "IPv6 queries", "queries", "ipv6_queries"),
    NextDnsSensorEntityDescription("ipv6_queries_ratio", ATTR_IP_VERSIONS, FALSE,
        "mdi:ip", "IPv6 queries ratio", PERCENTAGE, "ipv6_queries_ratio"),
    NextDnsSensorEntityDescription("validated_queries", ATTR_DNSSEC, FALSE,
        "mdi:lock-check", "DNSSEC validated queries", "queries", "validated_queries"),
    NextDnsSensorEntityDescription("not_validated_queries", ATTR_DNSSEC, FALSE,
        "mdi:lock-alert", "DNSSEC not validated queries", "queries",
        "not_validated_queries"),
    NextDnsSensorEntityDescription("validated_queries_ratio", ATTR_DNSSEC, FALSE,
        "mdi:lock-check", "DNSSEC validated queries ratio", PERCENTAGE,
        "validated_queries_ratio")
>>

\* description.value(data): the lambda reads one attribute of the snapshot.
Value(description, data) == data[description.value]

-----------------------------------------------------------------------------
(* Snapshots the coordinators can hold *)

\* The attributes of each Analytics* record that the catalog reads.
Fields(t) ==
    CASE t = ATTR_STATUS ->
           <<"all_queries", "blocked_queries", "relayed_queries", "blocked_queries_ratio">>
      [] t = ATTR_PROTOCOLS ->
           <<"doh_queries", "dot_queries", "doq_queries", "udp_queries",
             "doh_queries_ratio", "dot_queries_ratio", "doq_queries_ratio",
             "udp_queries_ratio">>
      [] t = ATTR_ENCRYPTION ->
           <<"encrypted_queries", "unencrypted_queries", "encrypted_queries_ratio">>
      [] t = ATTR_IP_VERSIONS ->
           <<"ipv4_queries", "ipv6_queries", "ipv6_queries_ratio">>
      [] t = ATTR_DNSSEC ->
           <<"validated_queries", "not_validated_queries", "validated_queries_ratio">>

FieldSet(t) == {Fields(t)[k] : k \in 1..Len(Fields(t))}

IndexOf(f, t) == CHOOSE k \in 1..Len(Fields(t)) : Fields(t)[k] = f

\* Sample snapshot number s of variant t: every attribute differs from every
\* other attribute of the record and from the same attribute of any other sample.
Snapshot(t, s) ==
    [f \in FieldSet(t) |-> s * (Len(Fields(t)) + 1) + IndexOf(f, t)]

Seeds == 0..MaxSeed

-----------------------------------------------------------------------------
(* Config entries *)

EntryIds == {"entry1"}

ProfileOf(entry) == "abc123"

NextDnsUpdateCoordinator(profile_id, t, s) ==
    [ profile_id  |-> profile_id,
      device_info |-> <<"nextdns", profile_id>>,
      data        |-> Snapshot(t, s) ]

-----------------------------------------------------------------------------
(* NextDnsSensor *)

\* Mutant: the key is left out of the identifier.
UniqueId_NoKey(profile_id, key) == profile_id \o "_"

\* f"{coordinator.profile_id}_{description.key}"
UniqueId(profile_id, key) == profile_id \o "_" \o key

\* Mutant: the constructor leaves the value unset (-1 stands for None).
NextDnsSensor_Unset(ref, coordinator, n) ==
    [ coordinator        |-> ref,
      _attr_device_info  |-> coordinator.device_info,
      _attr_unique_id    |-> UniqueId(coordinator.profile_id, SENSORS[n].key),
      _attr_native_value |-> -1,
      entity_description |-> n ]

\* NextDnsSensor.__init__; ref names the coordinator object, coordinator is its
\* state, and entity_description holds the position in SENSORS of the description.
NextDnsSensor(ref, coordinator, n) ==
    [ coordinator        |-> ref,
      _attr_device_info  |-> coordinator.device_info,
      _attr_unique_id    |-> UniqueId(coordinator.profile_id, SENSORS[n].key),
      _attr_native_value |-> Value(SENSORS[n], coordinator.data),
      entity_description |-> n ]

Description(sensor) == SENSORS[sensor.entity_description]

Coordinator(sensor) == hass_data[sensor.coordinator[1]][sensor.coordinator[2]]

\* Mutant: the loop stops one description short.
RECURSIVE BuildSensors_SkipLast(_, _, _)
BuildSensors_SkipLast(coordinators, entry, n) ==
    IF n <= 1 THEN <<>>
    ELSE Append(BuildSensors_SkipLast(coordinators, entry, n - 1),
                NextDnsSensor(<<entry, SENSORS[n - 1].coordinator_type>>,
                              coordinators[SENSORS[n - 1].coordinator_type],
                              n - 1))

\* The list built by the loop of async_setup_entry over SENSORS[1..n].
RECURSIVE BuildSensors(_, _, _)
BuildSensors(coordinators, entry, n) ==
    IF n = 0 THEN <<>>
    ELSE Append(BuildSensors(coordinators, entry, n - 1),
                NextDnsSensor(<<entry, SENSORS[n].coordinator_type>>,
                              coordinators[SENSORS[n].coordinator_type],
                              n))

-----------------------------------------------------------------------------
(* Actions *)

Init ==
    /\ hass_data = [e \in EntryIds |->
                      [t \in CoordinatorTypes |->
                          NextDnsUpdateCoordinator(ProfileOf(e), t, 0)]]
    /\ sensors = [e \in EntryIds |-> <<>>]
    /\ added = [e \in EntryIds |-> <<>>]
    /\ written = [e \in EntryIds |-> <<>>]
    /\ observed = [e \in EntryIds |-> <<>>]
    /\ nRefresh = 0
    /\ nUpdate = 0
    /\ probe = <<>>

\* async_setup_entry(hass, entry, async_add_entities)
AsyncSetupEntry(entry) ==
    /\ added[entry] = <<>>
    /\ LET coordinators == hass_data[entry]
           built == BuildSensors(coordinators, entry, Len(SENSORS))
       IN /\ sensors' = [sensors EXCEPT ![entry] = built]
          /\ added' = [added EXCEPT ![entry] =
                          Append(@, [i \in 1..Len(built) |-> i])]
          /\ written' = [written EXCEPT ![entry] = [i \in 1..Len(built) |-> <<>>]]
          /\ observed' = [observed EXCEPT ![entry] =
                             [i \in 1..Len(built) |->
                                 <<coordinators[built[i].coordinator[2]].data>>]]
    /\ UNCHANGED <<hass_data, nRefresh, nUpdate, probe>>

\* The coordinator of (entry, t) replaces its data with a different snapshot
\* (replacing it with an equal one changes nothing the entities can read).
Refresh(entry, t, s) ==
    /\ nRefresh < MaxRefresh
    /\ hass_data[entry][t].data # Snapshot(t, s)
    /\ hass_data' = [hass_data EXCEPT ![entry][t].data = Snapshot(t, s)]
    /\ nRefresh' = nRefresh + 1
    /\ UNCHANGED <<sensors, added, written, observed, nUpdate, probe>>

\* Mutant: the handler publishes but keeps the value it had.
HandleCoordinatorUpdate_Stale(entry, i) ==
    /\ nUpdate < MaxUpdate
    /\ i \in 1..Len(sensors[entry])
    /\ LET self == sensors[entry][i]
       IN /\ written' = [written EXCEPT ![entry][i] =
                            Append(@, self._attr_native_value)]
          /\ observed' = [observed EXCEPT ![entry][i] =
                             Append(@, Coordinator(self).data)]
    /\ nUpdate' = nUpdate + 1
    /\ UNCHANGED <<hass_data, sensors, added, nRefresh, probe>>

\* Mutant: the handler publishes before it stores the new value.
HandleCoordinatorUpdate_WriteFirst(entry, i) ==
    /\ nUpdate < MaxUpdate
    /\ i \in 1..Len(sensors[entry])
    /\ LET self == sensors[entry][i]
           value == Value(Description(self), Coordinator(self).data)
       IN /\ written' = [written EXCEPT ![entry][i] =
                            Append(@, self._attr_native_value)]
          /\ sensors' = [sensors EXCEPT ![entry][i]._attr_native_value = value]
          /\ observed' = [observed EXCEPT ![entry][i] =
                             Append(@, Coordinator(self).data)]
    /\ nUpdate' = nUpdate + 1
    /\ UNCHANGED <<hass_data, added, nRefresh, probe>>

\* Mutant: the handler publishes twice.
HandleCoordinatorUpdate_WriteTwice(entry, i) ==
    /\ nUpdate < MaxUpdate
    /\ i \in 1..Len(sensors[entry])
    /\ LET self == sensors[entry][i]
           value == Value(Description(self), Coordinator(self).data)
       IN /\ sensors' = [sensors EXCEPT ![entry][i]._attr_native_value = value]
          /\ written' = [written EXCEPT ![entry][i] = Append(Append(@, value), value)]
          /\ observed' = [observed EXCEPT ![entry][i] =
                             Append(@, Coordinator(self).data)]
    /\ nUpdate' = nUpdate + 1
    /\ UNCHANGED <<hass_data, added, nRefresh, probe>>

\* Mutant: the handler stores the value but never publishes it.
HandleCoordinatorUpdate_NoWrite(entry, i) ==
    /\ nUpdate < MaxUpdate
    /\ i \in 1..Len(sensors[entry])
    /\ LET self == sensors[entry][i]
           value == Value(Description(self), Coordinator(self).data)
       IN /\ sensors' = [sensors EXCEPT ![entry][i]._attr_native_value = value]
          /\ observed' = [observed EXCEPT ![entry][i] =
                             Append(@, Coordinator(self).data)]
    /\ nUpdate' = nUpdate + 1
    /\ UNCHANGED <<hass_data, added, written, nRefresh, probe>>

\* Mutant: the value is stored on the class, so every entity of the entry gets it.
HandleCoordinatorUpdate_ClassAttr(entry, i) ==
    /\ nUpdate < MaxUpdate
    /\ i \in 1..Len(sensors[entry])
    /\ LET self == sensors[entry][i]
           value == Value(Description(self), Coordinator(self).data)
       IN /\ sensors' = [sensors EXCEPT ![entry] =
                            [j \in 1..Len(@) |-> [@[j] EXCEPT !._attr_native_value = value]]]
          /\ written' = [written EXCEPT ![entry][i] = Append(@, value)]
          /\ observed' = [observed EXCEPT ![entry][i] =
                             Append(@, Coordinator(self).data)]
    /\ nUpdate' = nUpdate + 1
    /\ UNCHANGED <<hass_data, added, nRefresh, probe>>

\* NextDnsSensor._handle_coordinator_update on entity i of entry: store the value
\* extracted from coordinator.data, then async_write_ha_state publishes the stored
\* value.  Only entities that setup has added are subscribed.
HandleCoordinatorUpdate(entry, i) ==
    /\ nUpdate < MaxUpdate
    /\ i \in 1..Len(sensors[entry])
    /\ LET self == sensors[entry][i]
           value == Value(Description(self), Coordinator(self).data)
           stored == [self EXCEPT !._attr_native_value = value]
       IN /\ sensors' = [sensors EXCEPT ![entry][i] = stored]
          /\ written' = [written EXCEPT ![entry][i] =
                            Append(@, stored._attr_native_value)]
          /\ observed' = [observed EXCEPT ![entry][i] =
                             Append(@, Coordinator(self).data)]
    /\ nUpdate' = nUpdate + 1
    /\ UNCHANGED <<hass_data, added, nRefresh, probe>>

Next ==
    \/ \E entry \in EntryIds : AsyncSetupEntry(entry)
    \/ \E entry \in EntryIds, t \in CoordinatorTypes, s \in Seeds : Refresh(entry, t, s)
    \/ \E entry \in EntryIds, i \in 1..Len(SENSORS) : HandleCoordinatorUpdate(entry, i)

Spec == Init /\ [][Next]_vars

-----------------------------------------------------------------------------
(* Unique identifiers of entities built for arbitrary profiles *)

Pieces == {"_", "not"}

RECURSIVE Strings(_)
Strings(n) ==
    IF n = 0 THEN {""}
    ELSE LET shorter == Strings(n - 1)
         IN shorter \cup {x \o piece : x \in shorter, piece \in Pieces}

\* Profile identifiers: the non-empty strings of at most MaxParts pieces.
ProfileIds == Strings(MaxParts) \ {""}

Built(profile_id, n) ==
    LET t == SENSORS[n].coordinator_type
        sensor == NextDnsSensor(<<profile_id, t>>,
                                NextDnsUpdateCoordinator(profile_id, t, 0), n)
    IN [ profile_id |-> profile_id,
         key        |-> SENSORS[n].key,
         unique_id  |-> sensor._attr_unique_id ]

\* An entity is constructed for description n and for a coordinator whose
\* profile identifier is profile_id; the model follows two of them.
Construct(profile_id, n) ==
    /\ Len(probe) < 2
    /\ probe' = Append(probe, Built(profile_id, n))
    /\ UNCHANGED <<hass_data, sensors, added, written, observed, nRefresh, nUpdate>>

NextId ==
    \E profile_id \in ProfileIds, n \in 1..Len(SENSORS) : Construct(profile_id, n)

SpecId == Init /\ [][NextId]_vars

-----------------------------------------------------------------------------
(* Properties *)

Entities == {<<e, i>> \in EntryIds \X (1..Len(SENSORS)) : i <= Len(sensors[e])}

Sensor(x) == sensors[x[1]][x[2]]

Handled(x) == Len(observed[x[1]][x[2]]) - 1

Last(q) == q[Len(q)]

\* For each description, the other descriptions of the same coordinator type.
Siblings ==
    [n \in 1..Len(SENSORS) |->
        {m \in 1..Len(SENSORS) :
            m # n /\ SENSORS[m].coordinator_type = SENSORS[n].coordinator_type}]

\* C1: the displayed value of every entity equals its description's value
\* function applied to the snapshot its coordinator held when the entity last
\* handled an update (or when it was constructed, if it handled none), whatever
\* the coordinator holds now; it is not the value any other description
\* extracts from that snapshot.
C1_DisplayedValue ==
    \A x \in Entities :
        LET seen == Last(observed[x[1]][x[2]])
        IN /\ Sensor(x)._attr_native_value = Value(Description(Sensor(x)), seen)
           /\ \A n \in Siblings[Sensor(x).entity_description] :
                 Sensor(x)._attr_native_value # Value(SENSORS[n], seen)

\* An entity that handled an update and whose coordinator has moved on since.
C1_Witness ==
    \E x \in Entities :
        /\ Handled(x) >= 1
        /\ Last(observed[x[1]][x[2]]) # Coordinator(Sensor(x)).data

\* C2: before any update is handled, the displayed value of the entity built
\* for a description is that description's value function applied to the
\* snapshot its coordinator held at construction.
C2_ConstructedValue ==
    \A x \in Entities :
        Handled(x) = 0 =>
            Sensor(x)._attr_native_value =
                Value(SENSORS[x[2]], observed[x[1]][x[2]][1])

\* Entities constructed from a snapshot other than the initial one, none updated.
C2_Witness ==
    /\ nUpdate = 0
    /\ \E x \in Entities :
          /\ Handled(x) = 0
          /\ observed[x[1]][x[2]][1] = Snapshot(SENSORS[x[2]].coordinator_type, 1)
          /\ Sensor(x)._attr_native_value = Value(SENSORS[x[2]], Coordinator(Sensor(x)).data)

\* C3: when an entity has handled two successive updates, the coordinator
\* holding S1 at the first and S2 at the second, its displayed value and the
\* value published by the second update are extract(S2), and differ from
\* extract(S1) whenever the two extractions differ.
C3_Sequencing ==
    \A x \in Entities :
        Handled(x) >= 2 =>
            LET obs == observed[x[1]][x[2]]
                S1 == obs[Len(obs) - 1]
                S2 == obs[Len(obs)]
                extract(S) == Value(Description(Sensor(x)), S)
                published == Last(written[x[1]][x[2]])
            IN /\ Sensor(x)._attr_native_value = extract(S2)
               /\ published = extract(S2)
               /\ extract(S1) # extract(S2) =>
                     /\ Sensor(x)._attr_native_value # extract(S1)
                     /\ published # extract(S1)

\* Two updates handled by one entity with different snapshots at each.
C3_Witness ==
    \E x \in Entities :
        /\ Handled(x) = 2
        /\ observed[x[1]][x[2]][2] # observed[x[1]][x[2]][3]
        /\ Last(written[x[1]][x[2]]) = Value(Description(Sensor(x)), observed[x[1]][x[2]][3])

\* An update step of entity x: the step in which x handles a notification.
UpdateStepOf(x) ==
    /\ nUpdate' = nUpdate + 1
    /\ x \in Entities
    /\ Len(observed'[x[1]][x[2]]) = Len(observed[x[1]][x[2]]) + 1

\* C4: when an entity handles an update while its coordinator still holds the
\* snapshot it held at the entity's previous update, the displayed value stays
\* what it was and the only effect of the step is one more publish, of that
\* same value.
C4_Idempotent ==
    [][\A x \in EntryIds \X (1..Len(SENSORS)) :
          /\ UpdateStepOf(x)
          /\ Handled(x) >= 1
          /\ Last(observed[x[1]][x[2]]) = Coordinator(Sensor(x)).data
          => /\ sensors' = sensors
             /\ written' = [written EXCEPT ![x[1]][x[2]] =
                               Append(@, Sensor(x)._attr_native_value)]
             /\ Last(written[x[1]][x[2]]) = Sensor(x)._attr_native_value
             /\ UNCHANGED <<hass_data, added>>]_vars

\* An entity that handled two updates with the same snapshot.
C4_Witness ==
    \E x \in Entities :
        /\ Handled(x) = 2
        /\ observed[x[1]][x[2]][2] = observed[x[1]][x[2]][3]
        /\ written[x[1]][x[2]] =
              <<Sensor(x)._attr_native_value, Sensor(x)._attr_native_value>>

\* C5: for one profile identifier, entities of descriptions with distinct keys
\* get distinct unique identifiers; for one description, entities of distinct
\* profile identifiers get distinct unique identifiers.
C5_InjectiveInEach ==
    Len(probe) = 2 =>
        /\ (probe[1].profile_id = probe[2].profile_id /\ probe[1].key # probe[2].key)
              => probe[1].unique_id # probe[2].unique_id
        /\ (probe[1].key = probe[2].key /\ probe[1].profile_id # probe[2].profile_id)
              => probe[1].unique_id # probe[2].unique_id

\* The same description under two profile identifiers, one extending the other.
C5_Witness ==
    /\ Len(probe) = 2
    /\ probe[1].key = probe[2].key
    /\ probe[1].profile_id = probe[2].profile_id \o "_not"
    /\ probe[1].unique_id # probe[2].unique_id

\* C6: two entities whose (profile identifier, key) pairs differ have different
\* unique identifiers, for arbitrary profile identifiers.
C6_UniqueAcrossProfiles ==
    Len(probe) = 2 =>
        (<<probe[1].profile_id, probe[1].key>> # <<probe[2].profile_id, probe[2].key>>
            => probe[1].unique_id # probe[2].unique_id)

FourVariants == {ATTR_STATUS, ATTR_PROTOCOLS, ATTR_ENCRYPTION, ATTR_DNSSEC}

CatalogTagsAmongFour ==
    \A n \in 1..Len(SENSORS) : SENSORS[n].coordinator_type \in FourVariants

\* C7 as stated: every description's coordinator_type, and so the coordinator of
\* every entity built, is one of the four variants status, protocols,
\* encryption, dnssec.
C7_FourVariants ==
    /\ CatalogTagsAmongFour
    /\ \A x \in Entities : Sensor(x).coordinator[2] \in FourVariants

CatalogTagsAmongFive ==
    /\ Cardinality(CoordinatorTypes) = Cardinality(FourVariants) + 1
    /\ \A n \in 1..Len(SENSORS) : SENSORS[n].coordinator_type \in CoordinatorTypes
    /\ \A t \in CoordinatorTypes :
          \E n \in 1..Len(SENSORS) : SENSORS[n].coordinator_type = t

\* C7 amended: every description's coordinator_type is exactly one of the five
\* coordinator types the module imports (status, protocols, encryption,
\* ip_versions, dnssec), each of which names a coordinator of the entry, and
\* every entity built is bound to a coordinator of one of them.
C7_FiveVariants ==
    /\ CatalogTagsAmongFive
    /\ \A e \in EntryIds : DOMAIN hass_data[e] = CoordinatorTypes
    /\ \A x \in Entities : Sensor(x).coordinator[2] \in CoordinatorTypes

\* An entity bound to the ip_versions coordinator.
C7_Witness ==
    \E x \in Entities :
        /\ Sensor(x).coordinator[2] = ATTR_IP_VERSIONS
        /\ Sensor(x).coordinator[2] \notin FourVariants

\* C8: once async_setup_entry has run for an entry, there is exactly one entity
\* per description, in catalog order, each bound to the entry's coordinator of
\* its description's coordinator_type, and async_add_entities was called
\* exactly once, with the list of all of them.
C8_SetupComplete ==
    \A e \in EntryIds :
        /\ (sensors[e] # <<>>) <=> (added[e] # <<>>)
        /\ added[e] # <<>> =>
              /\ Len(sensors[e]) = Len(SENSORS)
              /\ \A n \in 1..Len(SENSORS) :
                    /\ n <= Len(sensors[e])
                    /\ sensors[e][n].entity_description = n
                    /\ sensors[e][n].coordinator = <<e, SENSORS[n].coordinator_type>>
                    /\ sensors[e][n]._attr_device_info =
                          hass_data[e][SENSORS[n].coordinator_type].device_info
              /\ Len(added[e]) = 1
              /\ added[e][1] = [n \in 1..Len(SENSORS) |-> n]

\* Setup has run for an entry after one of its coordinators was refreshed.
C8_Witness ==
    \E e \in EntryIds :
        /\ Len(added[e]) = 1
        /\ Len(added[e][1]) = Len(SENSORS)
        /\ nRefresh > 0

\* C9: every entity has published exactly as many times as it has handled
\* updates, and the value visible at each publish is its description's value
\* function applied to the snapshot the coordinator held at that update.
C9_PublishAfterStore ==
    \A x \in Entities :
        /\ Len(written[x[1]][x[2]]) = Handled(x)
        /\ \A k \in 1..Len(written[x[1]][x[2]]) :
              k <= Handled(x) =>
                  written[x[1]][x[2]][k] =
                      Value(Description(Sensor(x)), observed[x[1]][x[2]][k + 1])

\* An entity whose first publish showed a value other than the one it was
\* constructed with.
C9_Witness ==
    \E x \in Entities :
        /\ Len(written[x[1]][x[2]]) >= 1
        /\ written[x[1]][x[2]][1] # Value(Description(Sensor(x)), observed[x[1]][x[2]][1])

\* C10: a step that constructs entities or in which an entity handles an update
\* leaves every coordinator as it was; an update step changes no entity but the
\* one handling it, and of that one only the displayed value; and the displayed
\* value of an entity changes in no step but its own update step.
C10_Frame ==
    [][/\ (sensors' # sensors) => hass_data' = hass_data /\ nRefresh' = nRefresh
       /\ \A x \in EntryIds \X (1..Len(SENSORS)) :
             UpdateStepOf(x) =>
                /\ hass_data' = hass_data
                /\ \A y \in Entities : y # x => sensors'[y[1]][y[2]] = Sensor(y)
                /\ sensors'[x[1]][x[2]] =
                      [Sensor(x) EXCEPT !._attr_native_value =
                          sensors'[x[1]][x[2]]._attr_native_value]
       /\ \A x \in Entities :
             sensors'[x[1]][x[2]]._attr_native_value # Sensor(x)._attr_native_value
                => UpdateStepOf(x)]_vars

\* One entity shows the current snapshot after its update while another entity
\* of the same coordinator still shows the previous one.
C10_Witness ==
    \E x \in Entities, y \in Entities :
        /\ x # y
        /\ Sensor(x).coordinator = Sensor(y).coordinator
        /\ Handled(x) >= 1
        /\ Handled(y) = 0
        /\ Sensor(x)._attr_native_value =
              Value(Description(Sensor(x)), Coordinator(Sensor(x)).data)
        /\ Sensor(y)._attr_native_value #
              Value(Description(Sensor(y)), Coordinator(Sensor(y)).data)

====
